---- MODULE Spec2Model ----
(***************************************************************************)
(* State-machine model of zoho_bulk.py: the transport helper _request,     *)
(* get_access_token, fetch_records, _update_chunk and bulk_update.  The    *)
(* remote CRM is the environment: every HTTP attempt, response body and    *)
(* token exchange is a nondeterministic choice.                            *)
(***************************************************************************)
EXTENDS Integers, Sequences, FiniteSets, TLC

VARIABLES
    op,          \* the entry point the client called
    pc,          \* position inside that entry point
    chunkSize,   \* the value of CHUNK_SIZE for this run
    rows,        \* bulk_update: the rows argument
    hook,        \* bulk_update: TRUE when a progress_hook was passed
    token,       \* bulk_update: the access token ("" before the exchange)
    idx,         \* bulk_update: 1-based index of the chunk being processed
    payload,     \* _update_chunk: the payload sent (ids_sent = its ids)
    items,       \* _update_chunk: the result items collected so far
    missing,     \* _update_chunk: missing ids, the first being probed
    out,         \* bulk_update: the list that is returned
    raised,      \* exception that left the entry point ("none" while none)
    req,         \* activation record of a directly called _request
    tokenCalls,  \* number of token-exchange POSTs issued
    puts,        \* payloads handed to _request("PUT"), in order
    probes,      \* ids handed to the reconciliation GET, in order
    hookCalls,   \* arguments the progress_hook was called with, in order
    chunkLog,    \* per finished chunk: its index, how it ended, its records
    served,      \* the answers the server gave to that call, in order
    lastRes,     \* bulk_update: how its latest _request call ended
    cvid,        \* fetch_records: the cvid argument ("" for None)
    ids,         \* fetch_records: the ids argument (<<>> for None or [])
    fetchAll,    \* fetch_records: the fetch_all argument
    page,        \* fetch_records: page number, or 1-based index of the id chunk
    allRecords,  \* fetch_records: all_records
    fetchLog,    \* fetch_records: the GET requests made, in order
    answers,     \* fetch_records: what each of them was answered with
    hookMode,    \* bulk_update: how the progress_hook passed behaves when called
    uiText,      \* UI: st.session_state.ids_text_area_content, as characters
    loadedIds,   \* UI: st.session_state.loaded_lead_ids
    confirmPending, \* UI: st.session_state.confirm_pending
    executeUpdate,  \* UI: st.session_state.execute_update
    uiEvents,    \* UI: the clicks, edits and bulk_update calls so far, in order
    uiCalls,     \* UI: the id lists bulk_update was invoked with, in order
    parseOut     \* parse_ids: the list returned and the counts it reported

callVars == <<op, chunkSize, rows, hook, hookMode, cvid, ids, fetchAll>>
uiVars == <<uiText, loadedIds, confirmPending, executeUpdate, uiEvents, uiCalls,
            parseOut>>
fetchVars == <<page, allRecords, fetchLog, answers>>
bulkVars == <<token, idx, payload, items, missing, out, hookCalls, chunkLog>>
netVars == <<tokenCalls, puts, probes>>

vars == <<callVars, uiVars, bulkVars, netVars, fetchVars, pc, raised, req,
          served, lastRes>>

----------------------------------------------------------------------------
(* Bounds of the model *)

MaxRows == 3
MaxChunkSize == 2
MaxRespItems == 2
MaxFetchIds == 3
MaxPages == 3
\* PER_PAGE (200) and IDS_PER_REQUEST (100), scaled down
PerPage == 2
IdsPerRequest == 2

(* Program constants *)

MAX_RETRY == 3
BACKOFF == 2

VALID_STATUSES ==
    {"Not Contacted", "Self Storage Questions Sent", "Move Questionnaire Sent",
     "Move Questionnaire Follow Up", "Move Questionnaire Completed",
     "Onsite Survey Booked", "On Hold", "Duplicate Lead", "Closed Lost",
     "Junk Lead", "Not Qualified"}

RETRYABLE == {429, 500, 502, 503, 504}

----------------------------------------------------------------------------
(* Values drawn for the inputs and for the remote side *)

NumericIds == {"1", "2"}
RowIds == NumericIds \cup {"abc"}
\* "" stands for every falsy status: r.get("status") treats a missing key,
\* None and "" alike
RowStatuses == {"Junk Lead", "Bogus", ""}
Rows == [id : RowIds, status : RowStatuses]

NoResponse == 0
NetworkError == -1
ServerStatuses == {200, 204, 403, 404, 429, 503}
AttemptOutcomes == ServerStatuses \cup {NetworkError}

Absent == "<absent>"

RECURSIVE SeqsUpTo(_, _)
SeqsUpTo(S, n) ==
    IF n = 0 THEN {<<>>}
    ELSE LET shorter == SeqsUpTo(S, n - 1)
         IN  shorter \cup {Append(s, x) : s \in {t \in shorter : Len(t) = n - 1}, x \in S}

----------------------------------------------------------------------------
(* Python and requests helpers *)

\* str.isdigit() on the id strings of the model
IsDigit(s) == s \in NumericIds

\* truth value of a str / None
Truthy(s) == s # "" /\ s # Absent

\* requests.Response.__bool__ is Response.ok: False for a 4xx/5xx response;
\* None is falsy
RespTruthy(status) == status # NoResponse /\ status < 400

\* Response.raise_for_status() raises HTTPError for 400 <= status < 600
RaisesForStatus(status) == status >= 400 /\ status < 600

StatusStr(s) ==
    CASE s = 200 -> "200" [] s = 204 -> "204" [] s = 403 -> "403"
      [] s = 404 -> "404" [] s = 429 -> "429" [] s = 503 -> "503"
      [] OTHER -> "Unknown"

RECURSIVE SeqToSet(_)
SeqToSet(s) == IF s = <<>> THEN {} ELSE {Head(s)} \cup SeqToSet(Tail(s))

RECURSIVE Flatten(_)
Flatten(ss) == IF ss = <<>> THEN <<>> ELSE Head(ss) \o Flatten(Tail(ss))

\* math.ceil(n / c)
CeilDiv(n, c) == (n + c - 1) \div c

----------------------------------------------------------------------------
(* _request: one activation record, stepped one HTTP attempt at a time *)

IdleReq ==
    [state |-> "idle", purpose |-> "none", attempt |-> 0, nreq |-> 0,
     last |-> NoResponse, sleeps |-> <<>>, status |-> NoResponse, exc |-> "none",
     excResp |-> NoResponse]

NewRequest(purpose) ==
    [IdleReq EXCEPT !.state = "running", !.purpose = purpose, !.attempt = 1]

\* sleep_time = BACKOFF * 2**(attempt-1)
SleepTime(attempt) == BACKOFF * 2^(attempt - 1)

\* after the for loop: raise HTTPError, with response=last only "if last"
AfterLoop(r) ==
    IF RespTruthy(r.last)
    THEN [r EXCEPT !.state = "raised", !.exc = "HTTPError", !.excResp = r.last]
    ELSE [r EXCEPT !.state = "raised", !.exc = "HTTPError", !.excResp = NoResponse]

\* a loop over range(1, MAX_RETRY): one attempt short
NextAttempt_OneShort(r) ==
    IF r.attempt = MAX_RETRY - 1 THEN AfterLoop(r) ELSE [r EXCEPT !.attempt = @ + 1]

\* the next iteration of "for attempt in range(1, MAX_RETRY+1)"
NextAttempt(r) ==
    IF r.attempt = MAX_RETRY THEN AfterLoop(r) ELSE [r EXCEPT !.attempt = @ + 1]

\* the "status_code in (429, 500, 502, 503, 504)" branch: sleep, continue
OnRetryableStatus(r, status) ==
    NextAttempt([r EXCEPT !.last = status,
                          !.sleeps = Append(@, SleepTime(r.attempt))])

\* the "except requests.exceptions.RequestException" handler; resp is the
\* status of e.response (NoResponse when the exception carries none)
OnRequestException(r, resp, excName) ==
    IF r.attempt = MAX_RETRY
    THEN [r EXCEPT !.last = resp, !.state = "raised", !.exc = excName,
                   !.excResp = resp]
    ELSE NextAttempt([r EXCEPT !.last = resp,
                               !.sleeps = Append(@, SleepTime(r.attempt))])

\* one pass through the loop body: requests.request(...) is called once and
\* the server answers o
RequestStep(r0, o) ==
    LET r == [r0 EXCEPT !.nreq = @ + 1] IN
    IF o = NetworkError THEN OnRequestException(r, NoResponse, "ConnectionError")
    ELSE IF o = 204 THEN [r EXCEPT !.state = "returned", !.status = 204]
    ELSE IF o \in RETRYABLE THEN OnRetryableStatus(r, o)
    ELSE IF RaisesForStatus(o) THEN OnRequestException(r, o, "HTTPError")
    ELSE [r EXCEPT !.state = "returned", !.status = o]

\* a whole _request call, the server answering script[1], script[2], ...
RECURSIVE RunFrom(_, _)
RunFrom(r, script) ==
    IF r.state # "running" \/ script = <<>> THEN r
    ELSE RunFrom(RequestStep(r, Head(script)), Tail(script))

RunRequest(script) == RunFrom(NewRequest("call"), script)

Scripts == {s \in SeqsUpTo(AttemptOutcomes, MAX_RETRY) : Len(s) = MAX_RETRY}

\* what a caller can observe of a finished call: the response returned, or
\* the exception raised and the response it carries
Observed(r) ==
    [state |-> r.state, status |-> r.status, exc |-> r.exc, excResp |-> r.excResp]

RequestResults == {Observed(RunRequest(s)) : s \in Scripts}

\* how a _request call made by bulk_update ended: the method, the token
\* passed in the Authorization header, and what the caller observed
NoCall == [purpose |-> "none", token |-> ""] @@ Observed(IdleReq)
Finished(method, res) == [purpose |-> method, token |-> token] @@ res

ReqDone == req.state \in {"returned", "raised"}

\* one HTTP attempt of the _request call the client made directly
RequestAttempt ==
    /\ op = "_request" /\ req.state = "running"
    /\ \E o \in AttemptOutcomes :
         /\ req' = RequestStep(req, o)
         /\ served' = Append(served, o)
    /\ UNCHANGED <<callVars, uiVars, fetchVars, bulkVars, netVars, pc, raised, lastRes>>

\* the client's direct call of _request is over
RequestFinished ==
    /\ op = "_request" /\ pc = "request" /\ ReqDone
    /\ pc' = IF req.state = "returned" THEN "done" ELSE "raised"
    /\ raised' = req.exc
    /\ UNCHANGED <<callVars, uiVars, fetchVars, bulkVars, netVars, req, served, lastRes>>

----------------------------------------------------------------------------
(* bulk_update and _update_chunk: pure parts *)

Min(a, b) == IF a < b THEN a ELSE b

\* a chunk count that leaves out a partial last chunk
NumChunks_Floor(seq, n) == Len(seq) \div n

\* _chunks(seq, n): the number of chunks and the k-th chunk (1-based)
NumChunks(seq, n) == CeilDiv(Len(seq), n)
ChunkAt(seq, n, k) == SubSeq(seq, (k - 1) * n + 1, Min(k * n, Len(seq)))

\* a gate that looks at the first row only
BadStatuses_FirstRowOnly(rs) ==
    IF rs # <<>> /\ Truthy(rs[1].status) /\ rs[1].status \notin VALID_STATUSES
    THEN {rs[1].status} ELSE {}

\* bad = {r["status"] for r in rows if r.get("status") and r["status"] not in ...}
BadStatuses(rs) ==
    {rs[i].status : i \in {j \in 1..Len(rs) :
        Truthy(rs[j].status) /\ rs[j].status \notin VALID_STATUSES}}

\* a payload filter that looks at the id only
WellFormed_IdOnly(r) == IsDigit(r.id)

\* the filter of the payload comprehension
WellFormed(r) == IsDigit(r.id) /\ Truthy(r.status)

PayloadOf(chunk) ==
    LET kept == SelectSeq(chunk, WellFormed)
    IN  [i \in 1..Len(kept) |-> [id |-> kept[i].id, Lead_Status |-> kept[i].status]]

IdsSent(p) == [i \in 1..Len(p) |-> p[i].id]

\* an item of the "data" array of a mutation response: its top-level id and
\* its details.id (Absent when the field is not there); src is no field of
\* the program's records, it notes where a record of the result was made
RespItem(i, d) ==
    [id |-> i, did |-> d, status |-> "success", code |-> "SUCCESS",
     src |-> "response"]

\* the items the model lets the server answer with: id "1" at the top level,
\* id "2" under details, and an item whose two fields differ
RespItems ==
    {RespItem("1", Absent), RespItem(Absent, "2"), RespItem("2", "1")}

Bodies == SeqsUpTo(RespItems, MaxRespItems)

\* a lookup that prefers the top-level id to details.id
GotId_TopLevelFirst(i) ==
    IF i.id # Absent THEN i.id
    ELSE IF i.did # Absent THEN i.did
    ELSE "UNKNOWN_ID_IN_RESPONSE"

\* str(i.get("details", {}).get("id", i.get("id", "UNKNOWN_ID_IN_RESPONSE")))
GotId(i) ==
    IF i.did # Absent THEN i.did
    ELSE IF i.id # Absent THEN i.id
    ELSE "UNKNOWN_ID_IN_RESPONSE"

Got(its) == {GotId(its[k]) : k \in 1..Len(its)}

\* got built from the top-level id field alone
MissingIds_TopLevelOnly(sent, its) ==
    LET NotGot(i) == i \notin {its[k].id : k \in 1..Len(its)}
    IN  SelectSeq(sent, NotGot)

\* missing = [i for i in ids_sent if str(i).strip() not in got]
MissingIds(sent, its) ==
    LET NotGot(i) == i \notin Got(its) IN SelectSeq(sent, NotGot)

\* a 204 answered with an empty result list
NoContentItems_Empty(sent) == <<>>

NoContentItems(sent) ==
    [k \in 1..Len(sent) |->
        [id |-> sent[k], did |-> Absent, status |-> "error",
         code |-> "NO_CONTENT", src |-> "no_content"]]

\* the code chosen by the try/except around the probe's _request
ProbeCode(r) ==
    IF r.state = "returned"
    THEN IF r.status = 200 THEN "POSSIBLY_UPDATED_BUT_MISSING_IN_RESPONSE"
         ELSE IF r.status = 204 THEN "NOT_FOUND_ON_CHECK"
         ELSE "CHECK_FAILED_STATUS_" \o StatusStr(r.status)
    ELSE IF r.exc = "HTTPError"
    THEN LET status_code == IF RespTruthy(r.excResp) THEN r.excResp ELSE NoResponse
         IN  IF status_code = 404 THEN "NOT_FOUND_ON_CHECK"
             ELSE IF status_code = 403 THEN "PERMISSION_DENIED_ON_CHECK"
             ELSE "CHECK_FAILED_HTTPERROR_" \o StatusStr(status_code)
    ELSE "CHECK_FAILED_UNKNOWN_ERROR"

\* a probe whose 200 is taken as proof that the update went through
ProbeRecord_TrustFound(mid, r) ==
    [id |-> mid, did |-> Absent,
     status |-> IF r.state = "returned" /\ r.status = 200 THEN "success" ELSE "error",
     code |-> IF r.state = "returned" /\ r.status = 200 THEN "SUCCESS" ELSE ProbeCode(r),
     src |-> "probe"]

ProbeRecord(mid, r) ==
    [id |-> mid, did |-> Absent, status |-> "error", code |-> ProbeCode(r),
     src |-> "probe"]

\* the code written by the two except clauses of bulk_update
ChunkFailCode(exc, resp) ==
    IF exc = "HTTPError"
    THEN "CHUNK_FAILED_HTTP_"
         \o (IF RespTruthy(resp) THEN StatusStr(resp) ELSE "NETWORK_ERROR")
    ELSE "CHUNK_FAILED_UNKNOWN"

FailureRecords(chunk, code) ==
    [k \in 1..Len(chunk) |->
        [id |-> chunk[k].id, did |-> Absent, status |-> "error",
         code |-> code, src |-> "chunk_failed"]]

CurChunk == ChunkAt(rows, chunkSize, idx)

----------------------------------------------------------------------------------------------------------------------------------------
(* bulk_update and _update_chunk: steps *)

\* the validation gate
Validate ==
    /\ op = "bulk_update" /\ pc = "validate"
    /\ IF BadStatuses(rows) # {}
       THEN pc' = "raised" /\ raised' = "ValueError"
       ELSE pc' = "token" /\ raised' = raised
    /\ UNCHANGED <<callVars, uiVars, fetchVars, bulkVars, netVars, req, served, lastRes>>

TokenOutcomes == {"creds_missing", "http_error", "network_error", "no_token", "ok"}

TokenError(o) ==
    CASE o = "creds_missing" -> "ValueError"
      [] o = "http_error" -> "HTTPError"
      [] o = "network_error" -> "ConnectionError"
      [] o = "no_token" -> "RuntimeError"

\* a token exchange that is tried a second time when the first one fails
GetAccessToken_RetryOnce ==
    /\ op = "bulk_update" /\ pc = "token"
    /\ \E o \in TokenOutcomes :
         /\ tokenCalls' = IF o = "creds_missing" THEN tokenCalls
                          ELSE IF o = "ok" THEN tokenCalls + 1
                          ELSE tokenCalls + 2
         /\ IF o = "ok"
            THEN /\ token' = "tok" /\ idx' = 1 /\ pc' = "loop"
                 /\ raised' = raised
            ELSE /\ pc' = "raised" /\ raised' = TokenError(o)
                 /\ UNCHANGED <<token, idx>>
    /\ UNCHANGED <<callVars, uiVars, fetchVars, payload, items, missing, out, hookCalls, chunkLog,
                   puts, probes, req, served, lastRes>>

\* a token exchange that posts twice
GetAccessToken_Twice ==
    /\ op = "bulk_update" /\ pc = "token"
    /\ \E o \in TokenOutcomes :
         /\ tokenCalls' = IF o = "creds_missing" THEN tokenCalls ELSE tokenCalls + 2
         /\ IF o = "ok"
            THEN /\ token' = "tok" /\ idx' = 1 /\ pc' = "loop"
                 /\ raised' = raised
            ELSE /\ pc' = "raised" /\ raised' = TokenError(o)
                 /\ UNCHANGED <<token, idx>>
    /\ UNCHANGED <<callVars, uiVars, fetchVars, payload, items, missing, out, hookCalls, chunkLog,
                   puts, probes, req, served, lastRes>>

\* token = get_access_token(...): one POST unless the credentials are missing
GetAccessToken ==
    /\ op = "bulk_update" /\ pc = "token"
    /\ \E o \in TokenOutcomes :
         /\ tokenCalls' = IF o = "creds_missing" THEN tokenCalls ELSE tokenCalls + 1
         /\ IF o = "ok"
            THEN /\ token' = "tok" /\ idx' = 1 /\ pc' = "loop"
                 /\ raised' = raised
            ELSE /\ pc' = "raised" /\ raised' = TokenError(o)
                 /\ UNCHANGED <<token, idx>>
    /\ UNCHANGED <<callVars, uiVars, fetchVars, payload, items, missing, out, hookCalls, chunkLog,
                   puts, probes, req, served, lastRes>>

\* a skip that still reports the chunk to the progress hook
SkipEmptyChunk_CallsHook ==
    /\ op = "bulk_update" /\ pc = "loop"
    /\ idx <= NumChunks(rows, chunkSize)
    /\ PayloadOf(CurChunk) = <<>>
    /\ idx' = idx + 1
    /\ hookCalls' = Append(hookCalls, idx)
    /\ UNCHANGED <<callVars, uiVars, fetchVars, token, payload, items, missing, out,
                   chunkLog, netVars, pc, raised, req, served, lastRes>>

\* "if not payload: continue"
SkipEmptyChunk ==
    /\ op = "bulk_update" /\ pc = "loop"
    /\ idx <= NumChunks(rows, chunkSize)
    /\ PayloadOf(CurChunk) = <<>>
    /\ idx' = idx + 1
    /\ UNCHANGED <<callVars, uiVars, fetchVars, token, payload, items, missing, out, hookCalls,
                   chunkLog, netVars, pc, raised, req, served, lastRes>>

\* a success path that puts the records of the chunk in front of the result
FinishChunk_Prepend(results) ==
    /\ out' = results \o out
    /\ hookCalls' = IF hook THEN Append(hookCalls, idx) ELSE hookCalls
    /\ chunkLog' = Append(chunkLog, [idx |-> idx, kind |-> "ok", recs |-> results])
    /\ idx' = idx + 1
    /\ pc' = "loop" /\ raised' = raised
    /\ payload' = <<>> /\ items' = <<>> /\ missing' = <<>>

\* the n-th call of the progress_hook raises an exception (no HTTPError)
HookRaises(n) ==
    \/ hookMode = "raises"
    \/ hookMode = "raises_first" /\ n = 1

\* the success path of the try block: out.extend, progress_hook(idx)
FinishChunk(results) ==
    IF hook /\ HookRaises(Len(hookCalls) + 1)
    THEN \* progress_hook(idx) raises inside the try: "except Exception" adds
         \* the failure records and calls progress_hook(idx) again
         LET recs == FailureRecords(CurChunk, ChunkFailCode("HookError", NoResponse))
             again == HookRaises(Len(hookCalls) + 2)
         IN  /\ out' = out \o results \o recs
             /\ hookCalls' = hookCalls \o <<idx, idx>>
             /\ chunkLog' = Append(chunkLog, [idx |-> idx, kind |-> "hook_raised",
                                              recs |-> results \o recs])
             /\ idx' = IF again THEN idx ELSE idx + 1
             /\ pc' = IF again THEN "raised" ELSE "loop"
             /\ raised' = IF again THEN "HookError" ELSE raised
             /\ payload' = <<>> /\ items' = <<>> /\ missing' = <<>>
    ELSE /\ out' = out \o results
         /\ hookCalls' = IF hook THEN Append(hookCalls, idx) ELSE hookCalls
         /\ chunkLog' = Append(chunkLog, [idx |-> idx, kind |-> "ok", recs |-> results])
         /\ idx' = idx + 1
         /\ pc' = "loop" /\ raised' = raised
         /\ payload' = <<>> /\ items' = <<>> /\ missing' = <<>>

\* a loop without the except clauses: the exception leaves bulk_update
FailChunk_Reraise(exc, resp) ==
    /\ chunkLog' = Append(chunkLog, [idx |-> idx, kind |-> "failed", recs |-> <<>>])
    /\ pc' = "raised" /\ raised' = raised
    /\ payload' = <<>> /\ items' = <<>> /\ missing' = <<>>
    /\ UNCHANGED <<out, hookCalls, idx>>

\* except clauses that write the failure records but leave the hook out
FailChunk_NoHook(exc, resp) ==
    LET recs == FailureRecords(CurChunk, ChunkFailCode(exc, resp)) IN
    /\ out' = out \o recs
    /\ hookCalls' = hookCalls
    /\ chunkLog' = Append(chunkLog, [idx |-> idx, kind |-> "failed", recs |-> recs])
    /\ idx' = idx + 1
    /\ pc' = "loop" /\ raised' = raised
    /\ payload' = <<>> /\ items' = <<>> /\ missing' = <<>>

\* the except clauses: one record per row of the chunk, progress_hook(idx);
\* an exception of the hook raised there leaves bulk_update
FailChunk(exc, resp) ==
    LET recs == FailureRecords(CurChunk, ChunkFailCode(exc, resp))
        hookRaised == hook /\ HookRaises(Len(hookCalls) + 1)
    IN
    /\ out' = out \o recs
    /\ hookCalls' = IF hook THEN Append(hookCalls, idx) ELSE hookCalls
    /\ chunkLog' = Append(chunkLog, [idx |-> idx, kind |-> "failed", recs |-> recs])
    /\ idx' = IF hookRaised THEN idx ELSE idx + 1
    /\ pc' = IF hookRaised THEN "raised" ELSE "loop"
    /\ raised' = IF hookRaised THEN "HookError" ELSE raised
    /\ payload' = <<>> /\ items' = <<>> /\ missing' = <<>>

\* a loop that submits a chunk while the probes of a chunk are still pending
CanSubmit_WhileProbing ==
    /\ op = "bulk_update" /\ pc \in {"loop", "probe"}
    /\ idx <= NumChunks(rows, chunkSize)
    /\ PayloadOf(CurChunk) # <<>>

\* a chunk with a payload: _update_chunk is called, it calls _request("PUT")
CanSubmit ==
    /\ op = "bulk_update" /\ pc = "loop"
    /\ idx <= NumChunks(rows, chunkSize)
    /\ PayloadOf(CurChunk) # <<>>

\* the PUT raises: the exception reaches bulk_update's except clauses
SubmitChunkFailed ==
    /\ CanSubmit
    /\ puts' = Append(puts, PayloadOf(CurChunk))
    /\ \E res \in RequestResults :
         /\ res.state = "raised"
         /\ lastRes' = Finished("PUT", res)
         /\ FailChunk(res.exc, res.excResp)
    /\ UNCHANGED <<callVars, uiVars, fetchVars, token, tokenCalls, probes, req, served>>

\* a 204 treated like a body that names no id: every id sent is probed
SubmitChunkNoContent_Probe ==
    /\ CanSubmit
    /\ puts' = Append(puts, PayloadOf(CurChunk))
    /\ \E res \in RequestResults :
         /\ res.state = "returned" /\ res.status = 204
         /\ lastRes' = Finished("PUT", res)
         /\ payload' = PayloadOf(CurChunk)
         /\ items' = <<>>
         /\ missing' = IdsSent(PayloadOf(CurChunk))
         /\ pc' = "probe"
         /\ UNCHANGED <<idx, out, hookCalls, chunkLog, raised>>
    /\ UNCHANGED <<callVars, uiVars, fetchVars, token, tokenCalls, probes, req, served>>

\* the PUT returns 204: one NO_CONTENT record per id sent
SubmitChunkNoContent ==
    /\ CanSubmit
    /\ puts' = Append(puts, PayloadOf(CurChunk))
    /\ \E res \in RequestResults :
         /\ res.state = "returned" /\ res.status = 204
         /\ lastRes' = Finished("PUT", res)
         /\ FinishChunk(NoContentItems(IdsSent(PayloadOf(CurChunk))))
    /\ UNCHANGED <<callVars, uiVars, fetchVars, token, tokenCalls, probes, req, served>>

\* the PUT returns a body res.json() cannot decode: _update_chunk raises
\* HTTPError(response=res)
SubmitChunkUndecodable ==
    /\ CanSubmit
    /\ puts' = Append(puts, PayloadOf(CurChunk))
    /\ \E res \in RequestResults :
         /\ res.state = "returned" /\ res.status # 204
         /\ lastRes' = Finished("PUT", res)
         /\ FailChunk("HTTPError", res.status)
    /\ UNCHANGED <<callVars, uiVars, fetchVars, token, tokenCalls, probes, req, served>>

\* the PUT returns a body: items, got and missing are computed; without
\* missing ids _update_chunk returns, otherwise the probes follow
SubmitChunkAnswered ==
    /\ CanSubmit
    /\ puts' = Append(puts, PayloadOf(CurChunk))
    /\ \E res \in RequestResults, body \in Bodies :
         /\ res.state = "returned" /\ res.status # 204
         /\ lastRes' = Finished("PUT", res)
         /\ LET miss == MissingIds(IdsSent(PayloadOf(CurChunk)), body) IN
            IF miss = <<>>
            THEN FinishChunk(body)
            ELSE /\ payload' = PayloadOf(CurChunk)
                 /\ items' = body
                 /\ missing' = miss
                 /\ pc' = "probe"
                 /\ UNCHANGED <<idx, out, hookCalls, chunkLog, raised>>
    /\ UNCHANGED <<callVars, uiVars, fetchVars, token, tokenCalls, probes, req, served>>

\* a probe loop that appends no record when the GET raises
Probe_DropOnRaise ==
    /\ op = "bulk_update" /\ pc = "probe"
    /\ probes' = Append(probes, Head(missing))
    /\ \E res \in RequestResults :
         /\ lastRes' = Finished("GET", res)
         /\ LET its == IF res.state = "raised" THEN items
                       ELSE Append(items, ProbeRecord(Head(missing), res)) IN
            IF Tail(missing) = <<>>
            THEN FinishChunk(its)
            ELSE /\ items' = its
                 /\ missing' = Tail(missing)
                 /\ UNCHANGED <<idx, payload, out, hookCalls, chunkLog, pc, raised>>
    /\ UNCHANGED <<callVars, uiVars, fetchVars, token, tokenCalls, puts, req, served>>

\* one pass of "for mid in missing": the GET for missing[1], the record
\* appended for it; after the last one _update_chunk returns
Probe ==
    /\ op = "bulk_update" /\ pc = "probe"
    /\ probes' = Append(probes, Head(missing))
    /\ \E res \in RequestResults :
         /\ lastRes' = Finished("GET", res)
         /\ LET its == Append(items, ProbeRecord(Head(missing), res)) IN
            IF Tail(missing) = <<>>
            THEN FinishChunk(its)
            ELSE /\ items' = its
                 /\ missing' = Tail(missing)
                 /\ UNCHANGED <<idx, payload, out, hookCalls, chunkLog, pc, raised>>
    /\ UNCHANGED <<callVars, uiVars, fetchVars, token, tokenCalls, puts, req, served>>

\* the for loop is exhausted: return out
BulkReturn ==
    /\ op = "bulk_update" /\ pc = "loop"
    /\ idx > NumChunks(rows, chunkSize)
    /\ pc' = "done"
    /\ UNCHANGED <<callVars, uiVars, fetchVars, bulkVars, netVars, raised, req, served, lastRes>>

----------------------------------------------------------------------------
(* fetch_records *)

\* a selector test that forgets the "both" case
SelectorError_NeitherOnly(cv, idList) == ~Truthy(cv) /\ idList = <<>>

\* the two "raise ValueError" tests on the selector
SelectorError(cv, idList) ==
    \/ Truthy(cv) /\ idList # <<>>
    \/ ~Truthy(cv) /\ idList = <<>>

FetchSelect ==
    /\ op = "fetch_records" /\ pc = "select"
    /\ IF SelectorError(cvid, ids)
       THEN pc' = "raised" /\ raised' = "ValueError" /\ page' = page
       ELSE /\ pc' = IF Truthy(cvid) THEN "page" ELSE "ids"
            /\ page' = 1 /\ raised' = raised
    /\ UNCHANGED <<callVars, uiVars, bulkVars, netVars, allRecords, fetchLog, answers,
                   req, served, lastRes>>

PageRequest == [kind |-> "page", page |-> page, ids |-> <<>>]

\* what a GET of fetch_records came back with: an exception, a 204, a body
\* that is no JSON, or n records and the info object
Answer(kind, n, info) == [kind |-> kind, n |-> n, info |-> info]

\* the GET of a page raises: the exception leaves fetch_records
FetchPageFailed ==
    /\ op = "fetch_records" /\ pc = "page"
    /\ fetchLog' = Append(fetchLog, PageRequest)
    /\ answers' = Append(answers, Answer("raised", 0, "absent"))
    /\ \E res \in RequestResults :
         /\ res.state = "raised"
         /\ pc' = "raised" /\ raised' = res.exc
    /\ UNCHANGED <<callVars, uiVars, bulkVars, netVars, page, allRecords, req, served,
                   lastRes>>

\* 204 for a page: break
FetchPageNoContent ==
    /\ op = "fetch_records" /\ pc = "page"
    /\ fetchLog' = Append(fetchLog, PageRequest)
    /\ answers' = Append(answers, Answer("204", 0, "absent"))
    /\ \E res \in RequestResults : res.state = "returned" /\ res.status = 204
    /\ pc' = "done"
    /\ UNCHANGED <<callVars, uiVars, bulkVars, netVars, page, allRecords, req, served,
                   raised, lastRes>>

\* resp.json() fails: raise HTTPError
FetchPageUndecodable ==
    /\ op = "fetch_records" /\ pc = "page"
    /\ fetchLog' = Append(fetchLog, PageRequest)
    /\ answers' = Append(answers, Answer("undecodable", 0, "absent"))
    /\ \E res \in RequestResults : res.state = "returned" /\ res.status # 204
    /\ pc' = "raised" /\ raised' = "HTTPError"
    /\ UNCHANGED <<callVars, uiVars, bulkVars, netVars, page, allRecords, req, served,
                   lastRes>>

\* a rule that looks at the size of the page only
MoreRecords_FullPageOnly(info, n) == n = PerPage

\* more_records = info.get("more_records", False) if info else
\* (len(data) == PER_PAGE); info is "absent", "more" or "nomore"
MoreRecords(info, n) == IF info = "absent" THEN n = PerPage ELSE info = "more"

\* a page is answered with n records and an info object; the server has no
\* more than MaxPages pages
FetchPageData ==
    /\ op = "fetch_records" /\ pc = "page"
    /\ fetchLog' = Append(fetchLog, PageRequest)
    /\ \E res \in RequestResults :
         res.state = "returned" /\ res.status # 204
    /\ \E n \in 0..PerPage, info \in {"absent", "more", "nomore"} :
         /\ page = MaxPages => ~(n > 0 /\ fetchAll /\ MoreRecords(info, n))
         /\ answers' = Append(answers, Answer("data", n, info))
         /\ IF n = 0
            THEN pc' = "done" /\ UNCHANGED <<page, allRecords>>
            ELSE /\ allRecords' = allRecords
                      \o [k \in 1..n |-> [from |-> page, k |-> k]]
                 /\ IF fetchAll /\ MoreRecords(info, n)
                    THEN page' = page + 1 /\ pc' = pc
                    ELSE page' = page /\ pc' = "done"
    /\ UNCHANGED <<callVars, uiVars, bulkVars, netVars, req, served, raised, lastRes>>

IdChunk == ChunkAt(ids, IdsPerRequest, page)
IdsRequest == [kind |-> "ids", page |-> page, ids |-> IdChunk]

\* the end of one pass of the loop over the id chunks
NextIdChunk ==
    IF page = NumChunks(ids, IdsPerRequest)
    THEN pc' = "done" /\ page' = page
    ELSE pc' = pc /\ page' = page + 1

\* the GET of an id chunk raises: the exception leaves fetch_records
FetchIdsFailed ==
    /\ op = "fetch_records" /\ pc = "ids"
    /\ fetchLog' = Append(fetchLog, IdsRequest)
    /\ answers' = Append(answers, Answer("raised", 0, "absent"))
    /\ \E res \in RequestResults :
         /\ res.state = "raised"
         /\ pc' = "raised" /\ raised' = res.exc
    /\ UNCHANGED <<callVars, uiVars, bulkVars, netVars, page, allRecords, req, served,
                   lastRes>>

\* a 204 for an id chunk that ends the loop, as a 204 does for a page
FetchIdsNoContent_Break ==
    /\ op = "fetch_records" /\ pc = "ids"
    /\ fetchLog' = Append(fetchLog, IdsRequest)
    /\ answers' = Append(answers, Answer("204", 0, "absent"))
    /\ \E res \in RequestResults : res.state = "returned" /\ res.status = 204
    /\ pc' = "done" /\ page' = page
    /\ UNCHANGED <<callVars, uiVars, bulkVars, netVars, allRecords, req, served,
                   raised, lastRes>>

\* 204 for an id chunk: continue with the next chunk
FetchIdsNoContent ==
    /\ op = "fetch_records" /\ pc = "ids"
    /\ fetchLog' = Append(fetchLog, IdsRequest)
    /\ answers' = Append(answers, Answer("204", 0, "absent"))
    /\ \E res \in RequestResults : res.state = "returned" /\ res.status = 204
    /\ NextIdChunk
    /\ UNCHANGED <<callVars, uiVars, bulkVars, netVars, allRecords, req, served,
                   raised, lastRes>>

\* resp.json() fails: raise HTTPError
FetchIdsUndecodable ==
    /\ op = "fetch_records" /\ pc = "ids"
    /\ fetchLog' = Append(fetchLog, IdsRequest)
    /\ answers' = Append(answers, Answer("undecodable", 0, "absent"))
    /\ \E res \in RequestResults : res.state = "returned" /\ res.status # 204
    /\ pc' = "raised" /\ raised' = "HTTPError"
    /\ UNCHANGED <<callVars, uiVars, bulkVars, netVars, page, allRecords, req, served,
                   lastRes>>

\* an id chunk is answered with the records of its first n ids (none when
\* n = 0)
FetchIdsData ==
    /\ op = "fetch_records" /\ pc = "ids"
    /\ fetchLog' = Append(fetchLog, IdsRequest)
    /\ \E res \in RequestResults :
         res.state = "returned" /\ res.status # 204
    /\ \E n \in 0..Len(IdChunk) :
         /\ allRecords' = allRecords \o [k \in 1..n |-> [from |-> page, k |-> k]]
         /\ answers' = Append(answers, Answer("data", n, "absent"))
    /\ NextIdChunk
    /\ UNCHANGED <<callVars, uiVars, bulkVars, netVars, req, served, raised, lastRes>>

----------------------------------------------------------------------------
(* streamlit_app.py: parse_ids.  A text is the sequence of its characters,  *)
(* an id the sequence of its digits.                                        *)

Digits == {"1", "9"}
Chars == Digits \cup {" ", "\n", "a"}

\* the code points, which order str values
CharCode(c) ==
    CASE c = "\n" -> 10 [] c = " " -> 32 [] c = "1" -> 49 [] c = "9" -> 57
      [] c = "a" -> 97

\* text.splitlines(), the line being collected in cur
RECURSIVE SplitFrom(_, _)
SplitFrom(t, cur) ==
    IF t = <<>> THEN (IF cur = <<>> THEN <<>> ELSE <<cur>>)
    ELSE IF Head(t) = "\n" THEN <<cur>> \o SplitFrom(Tail(t), <<>>)
    ELSE SplitFrom(Tail(t), Append(cur, Head(t)))

SplitLines(t) == SplitFrom(t, <<>>)

\* "\n".join(lines)
RECURSIVE JoinLines(_)
JoinLines(ls) ==
    IF ls = <<>> THEN <<>>
    ELSE IF Len(ls) = 1 THEN ls[1]
    ELSE ls[1] \o <<"\n">> \o JoinLines(Tail(ls))

\* line.strip()
RECURSIVE LStrip(_)
LStrip(s) == IF s # <<>> /\ Head(s) = " " THEN LStrip(Tail(s)) ELSE s

RECURSIVE RStrip(_)
RStrip(s) ==
    IF s # <<>> /\ s[Len(s)] = " " THEN RStrip(SubSeq(s, 1, Len(s) - 1)) ELSE s

Strip(s) == RStrip(LStrip(s))

\* isdigit() taken to accept every non-empty line
IsDigits_NonEmpty(s) == s # <<>>

\* stripped.isdigit()
IsDigits(s) == s # <<>> /\ \A k \in 1..Len(s) : s[k] \in Digits

\* an order that compares ids as numbers: the shorter one first
RECURSIVE StrLess_Numeric(_, _)
StrLess_Numeric(a, b) ==
    IF Len(a) # Len(b) THEN Len(a) < Len(b)
    ELSE IF a = <<>> THEN FALSE
    ELSE IF Head(a) = Head(b) THEN StrLess_Numeric(Tail(a), Tail(b))
    ELSE CharCode(Head(a)) < CharCode(Head(b))

\* a < b for str values: the first differing character decides, a proper
\* prefix comes first
RECURSIVE StrLess(_, _)
StrLess(a, b) ==
    IF b = <<>> THEN FALSE
    ELSE IF a = <<>> THEN TRUE
    ELSE IF Head(a) = Head(b) THEN StrLess(Tail(a), Tail(b))
    ELSE CharCode(Head(a)) < CharCode(Head(b))

\* sorted(list(S)) for a set of str values
RECURSIVE SortedStrs(_)
SortedStrs(S) ==
    IF S = {} THEN <<>>
    ELSE LET m == CHOOSE x \in S : \A y \in S \ {x} : StrLess(x, y)
         IN  <<m>> \o SortedStrs(S \ {m})

\* the for loop over the lines: st is (parsed, ignored_count, processed_lines)
RECURSIVE ParseLoop(_, _)
ParseLoop(ls, st) ==
    IF ls = <<>> THEN st
    ELSE LET stripped == Strip(Head(ls)) IN
         IF stripped = <<>> \/ stripped \in st.processed_lines
         THEN ParseLoop(Tail(ls), st)
         ELSE LET seen == [st EXCEPT !.processed_lines = @ \cup {stripped}] IN
              IF IsDigits(stripped)
              THEN ParseLoop(Tail(ls), [seen EXCEPT !.parsed = Append(@, stripped)])
              ELSE ParseLoop(Tail(ls), [seen EXCEPT !.ignored_count = @ + 1])

\* parse_ids(text): the list returned, the count of the "Ignored ... lines"
\* toast and that of the "Removed ... duplicate IDs" toast (0: no toast)
ParseIds(text) ==
    LET st == ParseLoop(SplitLines(text),
                        [parsed |-> <<>>, ignored_count |-> 0,
                         processed_lines |-> {}])
        unique_ids == SortedStrs(SeqToSet(st.parsed))
    IN  [ids |-> unique_ids,
         ignored |-> st.ignored_count,
         duplicates |-> Len(st.parsed) - Len(unique_ids)]

NoParse == [ids |-> <<>>, ignored |-> 0, duplicates |-> 0]

MaxTextLen == 5
Texts == SeqsUpTo(Chars, MaxTextLen)

\* the client calls parse_ids(text)
ParseCall ==
    /\ op = "parse_ids" /\ pc = "call"
    /\ parseOut' = ParseIds(uiText)
    /\ pc' = "done"
    /\ UNCHANGED <<callVars, bulkVars, netVars, fetchVars, raised, req, served,
                   lastRes, uiText, loadedIds, confirmPending, executeUpdate,
                   uiEvents, uiCalls>>

----------------------------------------------------------------------------
(* Specification *)

\* bulk_update is called with a progress_hook
InitBulk ==
    /\ op = "bulk_update" /\ pc = "validate"
    /\ chunkSize \in 1..MaxChunkSize
    /\ rows \in SeqsUpTo(Rows, MaxRows)
    /\ hook = TRUE /\ hookMode = "returns"
    /\ req = IdleReq
    /\ cvid = "" /\ ids = <<>> /\ fetchAll = FALSE

InitRequest ==
    /\ op = "_request" /\ pc = "request"
    /\ chunkSize = 1 /\ rows = <<>> /\ hook = FALSE /\ hookMode = "returns"
    /\ req = NewRequest("call")
    /\ cvid = "" /\ ids = <<>> /\ fetchAll = FALSE

InitFetch ==
    /\ op = "fetch_records" /\ pc = "select"
    /\ chunkSize = 1 /\ rows = <<>> /\ hook = FALSE /\ hookMode = "returns"
    /\ req = IdleReq
    /\ cvid \in {"", "77"}
    /\ ids \in SeqsUpTo(NumericIds \cup {"3"}, MaxFetchIds)
    /\ fetchAll \in BOOLEAN

\* the variables an entry point starts with, whichever it is
InitRest ==
    /\ token = "" /\ idx = 0
    /\ payload = <<>> /\ items = <<>> /\ missing = <<>> /\ out = <<>>
    /\ hookCalls = <<>> /\ chunkLog = <<>>
    /\ tokenCalls = 0 /\ puts = <<>> /\ probes = <<>>
    /\ raised = "none" /\ served = <<>> /\ lastRes = NoCall
    /\ page = 0 /\ allRecords = <<>> /\ fetchLog = <<>> /\ answers = <<>>

\* the session state of the UI while the UI is not what runs
InitUiIdle ==
    /\ uiText = <<>> /\ loadedIds = <<>>
    /\ confirmPending = FALSE /\ executeUpdate = FALSE
    /\ uiEvents = <<>> /\ uiCalls = <<>>
    /\ parseOut = NoParse

Init == (InitBulk \/ InitRequest \/ InitFetch) /\ InitUiIdle /\ InitRest

NextRequest ==
    \/ RequestAttempt
    \/ RequestFinished

NextBulk ==
    \/ Validate
    \/ GetAccessToken
    \/ SkipEmptyChunk
    \/ SubmitChunkFailed
    \/ SubmitChunkNoContent
    \/ SubmitChunkUndecodable
    \/ SubmitChunkAnswered
    \/ Probe
    \/ BulkReturn

NextFetch ==
    \/ FetchSelect
    \/ FetchPageFailed
    \/ FetchPageNoContent
    \/ FetchPageUndecodable
    \/ FetchPageData
    \/ FetchIdsFailed
    \/ FetchIdsNoContent
    \/ FetchIdsUndecodable
    \/ FetchIdsData

Next == NextRequest \/ NextBulk \/ NextFetch

\* the client calls any one of the entry points
Spec == Init /\ [][Next]_vars

\* streamlit_app.py: the script.  Every user event runs the script once from
\* the top; st.rerun() ends the run and starts the next one (pc = "rerun").

MaxUiEvents == 5
MaxEditLen == 2
EditTexts == SeqsUpTo(Chars, MaxEditLen)

\* the ids of the leads a fetch can return
FetchedIds == {<<"1">>, <<"9">>, <<"1", "9">>}

\* what the fetch handler gets: no credentials, an exception of
\* get_access_token or fetch_records, or the set of ids of the leads
FetchOutcomes ==
    {[kind |-> "creds_missing", ids |-> {}], [kind |-> "failed", ids |-> {}]}
    \cup {[kind |-> "leads", ids |-> S] : S \in SUBSET FetchedIds}

UserCanAct == op = "ui" /\ pc = "idle" /\ Len(uiEvents) < MaxUiEvents

\* the execute block without the reset of its flag
ExecuteBlock_KeepFlag(log, loaded) ==
    IF executeUpdate
    THEN \E creds \in BOOLEAN :
            /\ executeUpdate' = executeUpdate
            /\ IF creds
               THEN /\ uiCalls' = Append(uiCalls, loaded)
                    /\ uiEvents' = Append(log, "invoke")
               ELSE /\ uiCalls' = uiCalls
                    /\ uiEvents' = Append(log, "creds_missing")
    ELSE /\ executeUpdate' = executeUpdate
         /\ uiCalls' = uiCalls
         /\ uiEvents' = log

\* the block under "if st.session_state.get('execute_update', False)", the
\* events so far being log and loaded_lead_ids being loaded: the flag is
\* reset, and bulk_update is called with rows_to_process unless the
\* credentials are missing (st.stop())
ExecuteBlock(log, loaded) ==
    IF executeUpdate
    THEN \E creds \in BOOLEAN :
            /\ executeUpdate' = FALSE
            /\ IF creds
               THEN /\ uiCalls' = Append(uiCalls, loaded)
                    /\ uiEvents' = Append(log, "invoke")
               ELSE /\ uiCalls' = uiCalls
                    /\ uiEvents' = Append(log, "creds_missing")
    ELSE /\ executeUpdate' = executeUpdate
         /\ uiCalls' = uiCalls
         /\ uiEvents' = log

\* the user changes the text area: sync_ids_from_text_area runs, then the script
EditText ==
    /\ UserCanAct
    /\ \E t \in EditTexts \ {uiText} :
        /\ uiText' = t
        /\ parseOut' = ParseIds(t)
        /\ loadedIds' = ParseIds(t).ids
        /\ ExecuteBlock(Append(uiEvents, "edit"), ParseIds(t).ids)
    /\ pc' = "idle"
    /\ UNCHANGED <<callVars, bulkVars, netVars, fetchVars, raised, req, served,
                   lastRes, confirmPending>>

\* what the fetch handler stores on outcome o: the text area content and
\* loaded_lead_ids
FetchStore(o) ==
    IF o.kind = "creds_missing"
    THEN UNCHANGED <<uiText, loadedIds>>
    ELSE IF o.kind = "leads" /\ o.ids # {}
    THEN /\ uiText' = JoinLines(SortedStrs(o.ids))
         /\ loadedIds' = loadedIds
    ELSE /\ uiText' = <<>>
         /\ loadedIds' = <<>>

\* the user clicks "Fetch IDs from CV"; only a fetch that found leads ends in
\* st.rerun(), the other runs go on to the main area
ClickFetch ==
    /\ UserCanAct
    /\ \E o \in FetchOutcomes :
        /\ FetchStore(o)
        /\ IF o.kind = "leads" /\ o.ids # {}
           THEN /\ pc' = "rerun"
                /\ uiEvents' = Append(uiEvents, "fetch")
                /\ UNCHANGED <<executeUpdate, uiCalls>>
           ELSE /\ pc' = "idle"
                /\ ExecuteBlock(Append(uiEvents, "fetch"),
                                IF o.kind = "creds_missing" THEN loadedIds
                                ELSE <<>>)
    /\ UNCHANGED <<callVars, bulkVars, netVars, fetchVars, raised, req, served,
                   lastRes, confirmPending, parseOut>>

\* the user clicks the update button, which is disabled without rows
ClickUpdate ==
    /\ UserCanAct
    /\ loadedIds # <<>>
    /\ confirmPending' = TRUE
    /\ uiEvents' = Append(uiEvents, "update")
    /\ pc' = "rerun"
    /\ UNCHANGED <<callVars, bulkVars, netVars, fetchVars, raised, req, served,
                   lastRes, uiText, loadedIds, executeUpdate, uiCalls, parseOut>>

\* the user clicks "Confirm & Proceed", shown while confirm_pending
ClickConfirm ==
    /\ UserCanAct
    /\ confirmPending
    /\ uiEvents' = Append(uiEvents, "confirm")
    /\ confirmPending' = FALSE
    /\ executeUpdate' = TRUE
    /\ pc' = "rerun"
    /\ UNCHANGED <<callVars, bulkVars, netVars, fetchVars, raised, req, served,
                   lastRes, uiText, loadedIds, uiCalls, parseOut>>

\* the user clicks "Cancel Update", shown while confirm_pending
ClickCancel ==
    /\ UserCanAct
    /\ confirmPending
    /\ uiEvents' = Append(uiEvents, "cancel")
    /\ confirmPending' = FALSE
    /\ pc' = "rerun"
    /\ UNCHANGED <<callVars, bulkVars, netVars, fetchVars, raised, req, served,
                   lastRes, uiText, loadedIds, executeUpdate, uiCalls, parseOut>>

\* the run started by st.rerun(): no button reads as clicked
ScriptRerun ==
    /\ op = "ui" /\ pc = "rerun"
    /\ ExecuteBlock(uiEvents, loadedIds)
    /\ pc' = "idle"
    /\ UNCHANGED <<callVars, bulkVars, netVars, fetchVars, raised, req, served,
                   lastRes, uiText, loadedIds, confirmPending, parseOut>>

\* the arguments of the entry points of zoho_bulk.py, while none of them runs
NoBulkCall ==
    /\ chunkSize = 1 /\ rows = <<>> /\ hook = FALSE /\ hookMode = "returns"
    /\ req = IdleReq
    /\ cvid = "" /\ ids = <<>> /\ fetchAll = FALSE

\* the client calls parse_ids
InitParse ==
    /\ op = "parse_ids" /\ pc = "call"
    /\ NoBulkCall
    /\ uiText \in Texts /\ loadedIds = <<>>
    /\ confirmPending = FALSE /\ executeUpdate = FALSE
    /\ uiEvents = <<>> /\ uiCalls = <<>>
    /\ parseOut = NoParse
    /\ InitRest

NextParse == ParseCall

SpecParse == InitParse /\ [][NextParse]_vars

\* the client calls bulk_update with a progress_hook that raises: on its first
\* call only, or on every call
InitHook ==
    /\ op = "bulk_update" /\ pc = "validate"
    /\ chunkSize \in 1..MaxChunkSize
    /\ rows \in SeqsUpTo(Rows, MaxRows)
    /\ hook = TRUE /\ hookMode \in {"raises_first", "raises"}
    /\ req = IdleReq
    /\ cvid = "" /\ ids = <<>> /\ fetchAll = FALSE
    /\ InitUiIdle /\ InitRest

SpecHook == InitHook /\ [][NextBulk]_vars

\* a new session, after the first run of the script
InitUI ==
    /\ op = "ui" /\ pc = "idle"
    /\ NoBulkCall
    /\ uiText = <<>> /\ loadedIds = ParseIds(<<>>).ids
    /\ confirmPending = FALSE /\ executeUpdate = FALSE
    /\ uiEvents = <<>> /\ uiCalls = <<>>
    /\ parseOut = ParseIds(<<>>)
    /\ InitRest

NextUI ==
    \/ EditText
    \/ ClickFetch
    \/ ClickUpdate
    \/ ClickConfirm
    \/ ClickCancel
    \/ ScriptRerun

SpecUI == InitUI /\ [][NextUI]_vars

\* the client calls _request
InitRequestCall == InitRequest /\ InitUiIdle /\ InitRest

SpecRequest == InitRequestCall /\ [][NextRequest]_vars

\* the client calls fetch_records
InitFetchCall == InitFetch /\ InitUiIdle /\ InitRest

SpecFetch == InitFetchCall /\ [][NextFetch]_vars

----------------------------------------------------------------------------
(* Properties of bulk_update *)

IsPrefix(s, t) == Len(s) <= Len(t) /\ SubSeq(t, 1, Len(s)) = s

Returned == op = "bulk_update" /\ pc = "done"

AllWellFormed == \A i \in 1..Len(rows) : WellFormed(rows[i])

\* nothing was sent: no token exchange, no PUT, no probe
NoNetworkCall ==
    tokenCalls = 0 /\ puts = <<>> /\ probes = <<>> /\ lastRes = NoCall

\* C1 as stated: whenever some row carries a status outside VALID_STATUSES,
\* bulk_update makes no network call and ends by raising the validation
\* error.
C1_AnyStatusOutsideValid ==
    (op = "bulk_update"
       /\ \E i \in 1..Len(rows) : rows[i].status \notin VALID_STATUSES)
    => /\ NoNetworkCall
       /\ pc \in {"validate", "raised"}
       /\ pc = "raised" => raised = "ValueError"

\* C1 amended: whenever some row carries a non-empty status outside
\* VALID_STATUSES, bulk_update makes no network call and ends by raising the
\* validation error, whatever the other rows contain.
C1_ValidationGate ==
    (op = "bulk_update"
       /\ \E i \in 1..Len(rows) :
            rows[i].status # "" /\ rows[i].status \notin VALID_STATUSES)
    => /\ NoNetworkCall
       /\ pc \in {"validate", "raised"}
       /\ pc = "raised" => raised = "ValueError"

\* an invalid status in the last of three rows, the first two being
\* well-formed rows with valid statuses, has been rejected
C1_Witness ==
    /\ op = "bulk_update" /\ pc = "raised" /\ raised = "ValueError"
    /\ Len(rows) = 3
    /\ WellFormed(rows[1]) /\ WellFormed(rows[2])
    /\ rows[3].status = "Bogus"

\* a record of the result names id x at its top level or under details
Mentions(rec, x) == rec.id = x \/ rec.did = x

EveryIdAppears ==
    \A i \in 1..Len(rows) : \E k \in 1..Len(out) : Mentions(out[k], rows[i].id)

\* C2 as stated: when bulk_update returns for K well-formed rows, the result
\* has at least K records and every submitted id appears in one of them.
C2_AtLeastOnePerRow ==
    (Returned /\ AllWellFormed) => (Len(out) >= Len(rows) /\ EveryIdAppears)

\* C2 amended: when bulk_update returns for well-formed rows, the result has
\* at least as many records as there are distinct submitted ids, and every
\* submitted id appears in at least one record, whatever the remote side did
\* for each chunk.
C2_Completeness ==
    (Returned /\ AllWellFormed)
    => /\ Len(out) >= Cardinality({rows[i].id : i \in 1..Len(rows)})
       /\ EveryIdAppears

\* bulk_update returned for three well-formed rows, having probed an id that
\* a response omitted and having had a chunk fail
C2_Witness ==
    /\ Returned /\ AllWellFormed /\ Len(rows) = 3
    /\ probes # <<>>
    /\ \E k \in 1..Len(chunkLog) : chunkLog[k].kind = "failed"

ChunkFailureCodes ==
    {"CHUNK_FAILED_UNKNOWN", "CHUNK_FAILED_HTTP_NETWORK_ERROR"}
    \cup {"CHUNK_FAILED_HTTP_" \o StatusStr(st) : st \in ServerStatuses}

\* the records of the first k finished chunks, in order
LoggedRecs(k) == Flatten([j \in 1..k |-> chunkLog[j].recs])

HasPayload(c) == PayloadOf(ChunkAt(rows, chunkSize, c)) # <<>>

\* C3: a chunk whose mutation request failed leaves one record with a
\* chunk-failure code per row of the chunk, the records of the earlier chunks
\* stay in the result in front of them, bulk_update does not raise, and by
\* the time it returns every later chunk with a payload was submitted too.
C3_ChunkIsolation ==
    op = "bulk_update" =>
    \A k \in 1..Len(chunkLog) :
       chunkLog[k].kind = "failed" =>
       LET c == chunkLog[k].idx
           chunk == ChunkAt(rows, chunkSize, c)
           recs == chunkLog[k].recs
       IN  /\ Len(recs) = Len(chunk)
           /\ \A j \in 1..Len(recs) :
                /\ recs[j].id = chunk[j].id
                /\ recs[j].status = "error"
                /\ recs[j].code \in ChunkFailureCodes
           /\ IsPrefix(LoggedRecs(k), out)
           /\ pc # "raised" /\ raised = "none"
           /\ pc = "done" =>
                /\ \A c2 \in (c + 1)..NumChunks(rows, chunkSize) :
                     HasPayload(c2) =>
                       \E k2 \in (k + 1)..Len(chunkLog) : chunkLog[k2].idx = c2
                /\ Len(puts) = Len(chunkLog)
                /\ out = LoggedRecs(Len(chunkLog))

\* bulk_update returned after chunk 2 of 3 failed, chunks 1 and 3 having
\* produced their own records
C3_Witness ==
    /\ Returned /\ Len(chunkLog) = 3
    /\ chunkLog[1].kind = "ok" /\ chunkLog[1].recs # <<>>
    /\ chunkLog[2].kind = "failed"
    /\ chunkLog[3].kind = "ok" /\ chunkLog[3].recs # <<>>
    /\ lastRes.state = "returned"

\* the record appended for the latest probe
LastProbeRecord == IF pc = "probe" THEN items[Len(items)] ELSE out[Len(out)]

\* C4 as stated: the record of a probe that found the record (200) has the
\* possibly-updated code, that of a probe answered "no content" has the
\* not-found code, and that of a probe that failed with 403 has the
\* permission-denied code.
C4_ProbeClassification ==
    (op = "bulk_update" /\ lastRes.purpose = "GET")
    => /\ (lastRes.state = "returned" /\ lastRes.status = 200)
            => LastProbeRecord.code = "POSSIBLY_UPDATED_BUT_MISSING_IN_RESPONSE"
       /\ (lastRes.state = "returned" /\ lastRes.status = 204)
            => LastProbeRecord.code = "NOT_FOUND_ON_CHECK"
       /\ (lastRes.state = "raised" /\ lastRes.excResp = 403)
            => LastProbeRecord.code = "PERMISSION_DENIED_ON_CHECK"

\* the id a record of the result stands for
RecId(rec) == IF rec.src = "response" THEN GotId(rec) ELSE rec.id

CountRecs(x) == Cardinality({k \in 1..Len(out) : RecId(out[k]) = x})
CountRows(x) == Cardinality({i \in 1..Len(rows) : rows[i].id = x})

ResponseIds(recs) ==
    LET FromResponse(rec) == rec.src = "response"
        its == SelectSeq(recs, FromResponse)
    IN  [k \in 1..Len(its) |-> GotId(its[k])]

NoDuplicates(seq) ==
    \A a, b \in 1..Len(seq) : seq[a] = seq[b] => a = b

\* no mutation response repeated an id
NoRepeatedId ==
    \A k \in 1..Len(chunkLog) : NoDuplicates(ResponseIds(chunkLog[k].recs))

\* every mutation response named only ids sent in its chunk, none twice
CleanResponses ==
    \A k \in 1..Len(chunkLog) :
       LET named == ResponseIds(chunkLog[k].recs)
           sent == IdsSent(PayloadOf(ChunkAt(rows, chunkSize, chunkLog[k].idx)))
       IN  NoDuplicates(named) /\ SeqToSet(named) \subseteq SeqToSet(sent)

----------------------------------------------------------------------------
(* Properties of _request, on the call the client made directly *)

DirectCall == op = "_request"

\* C6 as stated: once the first response has a non-success status outside
\* the retry list, _request has raised, after one request and no sleep.
C6_NoRetryOnOtherStatus ==
    (DirectCall /\ served # <<>>
       /\ RaisesForStatus(served[1]) /\ served[1] \notin RETRYABLE)
    => (req.state = "raised" /\ req.nreq = 1 /\ req.sleeps = <<>>)

AllServed(S) == \A k \in 1..Len(served) : served[k] \in S

\* C7: while the server answers 503 every time, _request makes one request
\* per answer and never more than MAX_RETRY, the sleep before attempt k+1 is
\* BACKOFF * 2^(k-1) (2 s, then 4 s, each double the one before), and the
\* call ends only after MAX_RETRY requests, by raising HTTPError.
C7_RetryBound ==
    (DirectCall /\ AllServed({503}))
    => /\ req.nreq = Len(served) /\ req.nreq <= MAX_RETRY
       /\ \A k \in 1..(req.nreq - 1) : req.sleeps[k] = BACKOFF * 2^(k - 1)
       /\ \A k \in 2..(req.nreq - 1) : req.sleeps[k] = 2 * req.sleeps[k - 1]
       /\ req.state # "returned"
       /\ req.state = "raised" => (req.nreq = MAX_RETRY /\ req.exc = "HTTPError")
       /\ req.nreq = MAX_RETRY => req.state = "raised"
       /\ pc = "done" => FALSE

\* _request has raised after three answers of 503
C7_Witness ==
    /\ DirectCall /\ served = <<503, 503, 503>>
    /\ pc = "raised" /\ raised = "HTTPError"

\* C8 as stated: when every attempt ended in a retryable status, the error
\* raised carries the last response observed.
C8_ExhaustionCarriesLastResponse ==
    (DirectCall /\ ReqDone /\ Len(served) = MAX_RETRY /\ AllServed(RETRYABLE))
    => (req.state = "raised" /\ req.excResp = served[MAX_RETRY])

----------------------------------------------------------------------------
(* Chunking *)

\* C9: when bulk_update returns for N well-formed rows, it has submitted
\* exactly ceil(N / CHUNK_SIZE) mutation chunks, none with more than
\* CHUNK_SIZE items, and the payloads one after the other are the rows in
\* input order, each once.
C9_ChunkCount ==
    (Returned /\ AllWellFormed)
    => /\ Len(puts) = CeilDiv(Len(rows), chunkSize)
       /\ \A k \in 1..Len(puts) : Len(puts[k]) <= chunkSize /\ puts[k] # <<>>
       /\ Flatten(puts)
            = [i \in 1..Len(rows) |->
                 [id |-> rows[i].id, Lead_Status |-> rows[i].status]]

\* bulk_update returned for three well-formed rows in chunks of two: a full
\* chunk and a partial one
C9_Witness ==
    /\ Returned /\ AllWellFormed
    /\ Len(rows) = 3 /\ chunkSize = 2 /\ Len(puts) = 2

----------------------------------------------------------------------------
(* Properties of fetch_records *)

\* C10: fetch_records called with both a cvid and a non-empty id list, or
\* with neither, issues no request, collects nothing and ends by raising
\* ValueError.
C10_SelectorExclusive ==
    (op = "fetch_records"
       /\ \/ cvid # "" /\ ids # <<>>
          \/ cvid = "" /\ ids = <<>>)
    => /\ fetchLog = <<>> /\ allRecords = <<>>
       /\ pc \in {"select", "raised"}
       /\ pc = "raised" => raised = "ValueError"

\* the call with both selectors has been rejected
C10_Witness ==
    /\ op = "fetch_records" /\ pc = "raised" /\ raised = "ValueError"
    /\ cvid = "77" /\ Len(ids) = 2

----------------------------------------------------------------------------
(* Properties of the reconciliation probes *)

\* the records the probes of bulk_update have appended so far
ProbeRecords ==
    {items[k] : k \in {j \in 1..Len(items) : items[j].src = "probe"}}
    \cup {out[k] : k \in {j \in 1..Len(out) : out[j].src = "probe"}}

\* C11: every record appended for a probed id has status "error" and never
\* the success code, whatever the probe came back with; right after a probe
\* that found the record (200) the record appended for it is an error record
\* for the probed id.
C11_ConservativeProbing ==
    op = "bulk_update" =>
       /\ \A rec \in ProbeRecords : rec.status = "error" /\ rec.code # "SUCCESS"
       /\ (lastRes.purpose = "GET" /\ lastRes.state = "returned"
             /\ lastRes.status = 200)
          => /\ LastProbeRecord.src = "probe"
             /\ LastProbeRecord.status = "error"
             /\ LastProbeRecord.id = probes[Len(probes)]

\* a probe has just found the record (200) and its record is in the result
C11_Witness ==
    /\ Returned
    /\ lastRes.purpose = "GET" /\ lastRes.state = "returned" /\ lastRes.status = 200
    /\ out # <<>> /\ out[Len(out)].src = "probe"
    /\ out[Len(out)].code = "POSSIBLY_UPDATED_BUT_MISSING_IN_RESPONSE"

\* the ids of the probe records among recs, in order
ProbedIds(recs) ==
    LET FromProbe(rec) == rec.src = "probe"
        prs == SelectSeq(recs, FromProbe)
    IN  [k \in 1..Len(prs) |-> prs[k].id]

\* the records among recs that came with the mutation response, in order
ResponsePart(recs) ==
    LET FromResponse(rec) == rec.src = "response" IN SelectSeq(recs, FromResponse)

\* the ids sent in the PUT of chunk c
SentAt(c) == IdsSent(PayloadOf(ChunkAt(rows, chunkSize, c)))

\* the chunk of this log entry was answered with a body (not 204, not failed)
AnsweredWithBody(e) ==
    e.kind = "ok" /\ \A j \in 1..Len(e.recs) : e.recs[j].src # "no_content"

----------------------------------------------------------------------------
(* Present-id detection *)

\* id x is in one of the two id fields of some item
InEitherField(x, its) ==
    \E k \in 1..Len(its) : its[k].id = x \/ its[k].did = x

\* id x is the details.id of some item, or the top-level id of an item that
\* has no details.id
InDecidingField(x, its) ==
    \E k \in 1..Len(its) :
       \/ its[k].did # Absent /\ its[k].did = x
       \/ its[k].did = Absent /\ its[k].id = x

WasProbed(x, recs) == \E j \in 1..Len(ProbedIds(recs)) : ProbedIds(recs)[j] = x

\* C13 as stated: an id sent in a chunk that equals the top-level id or the
\* details.id of some item of the response is not probed.
C13_PresentInEitherField ==
    op = "bulk_update" =>
    \A k \in 1..Len(chunkLog) :
       AnsweredWithBody(chunkLog[k]) =>
       \A x \in SeqToSet(SentAt(chunkLog[k].idx)) :
          InEitherField(x, ResponsePart(chunkLog[k].recs))
          => ~WasProbed(x, chunkLog[k].recs)

\* C13 amended: an id sent in a chunk is left unprobed exactly when it equals
\* the details.id of some item of the response, or the top-level id of an
\* item that carries no details.id; the top-level id of an item that also
\* carries a details.id does not count.
C13_PresentIdDetection ==
    op = "bulk_update" =>
    \A k \in 1..Len(chunkLog) :
       AnsweredWithBody(chunkLog[k]) =>
       \A x \in SeqToSet(SentAt(chunkLog[k].idx)) :
          InDecidingField(x, ResponsePart(chunkLog[k].recs))
          <=> ~WasProbed(x, chunkLog[k].recs)

\* ids "1" and "2" were sent in one chunk and answered by the single item
\* {id: "2", details: {id: "1"}}: "1" counted as present, "2" was probed
C13_Witness ==
    /\ Returned
    /\ \E k \in 1..Len(chunkLog) :
         LET recs == chunkLog[k].recs IN
         /\ AnsweredWithBody(chunkLog[k])
         /\ SeqToSet(SentAt(chunkLog[k].idx)) = {"1", "2"}
         /\ ResponsePart(recs) = <<RespItem("2", "1")>>
         /\ ~WasProbed("1", recs) /\ WasProbed("2", recs)

----------------------------------------------------------------------------
(* Progress callback, order of the requests and of the result *)

\* C14: with a progress callback passed, there is one call of it per chunk
\* submitted and finished (none yet for the chunk whose probes are under
\* way), for chunks that succeeded and chunks whose failure was caught alike;
\* the k-th call carries the 1-based index of the chunk whose payload was the
\* k-th one submitted; the indices are strictly increasing and none exceeds
\* ceil(N / CHUNK_SIZE).
C14_ProgressCallback ==
    (op = "bulk_update" /\ hook) =>
       /\ pc \in {"loop", "done"} => Len(hookCalls) = Len(puts)
       /\ pc = "probe" => Len(hookCalls) = Len(puts) - 1
       /\ Len(hookCalls) = Len(chunkLog)
       /\ \A k \in 1..Len(hookCalls) :
             /\ hookCalls[k] = chunkLog[k].idx
             /\ hookCalls[k] >= 1
             /\ hookCalls[k] <= CeilDiv(Len(rows), chunkSize)
             /\ puts[k] = PayloadOf(ChunkAt(rows, chunkSize, hookCalls[k]))
       /\ \A k \in 2..Len(hookCalls) : hookCalls[k - 1] < hookCalls[k]

\* bulk_update returned after three chunks, the second of which failed: the
\* callback was called with 1, 2 and 3
C14_Witness ==
    /\ Returned /\ hook
    /\ hookCalls = <<1, 2, 3>>
    /\ chunkLog[1].kind = "ok" /\ chunkLog[2].kind = "failed"
    /\ chunkLog[3].kind = "ok"

\* C15: a mutation request is issued only while no probe is pending and
\* every chunk submitted before has finished (its records, probe records
\* included, are logged); a probe is issued only for the first id still
\* missing of the chunk submitted last; no step issues more than one call,
\* and every call has ended, retries included, when the step is over.
C15_SerialExecution ==
    [][op = "bulk_update" =>
         /\ puts' # puts =>
              /\ pc = "loop" /\ missing = <<>> /\ items = <<>>
              /\ Len(puts') = Len(puts) + 1
              /\ Len(chunkLog) = Len(puts)
              /\ probes' = probes /\ tokenCalls' = tokenCalls
              /\ lastRes'.purpose = "PUT"
              /\ lastRes'.state \in {"returned", "raised"}
         /\ probes' # probes =>
              /\ pc = "probe" /\ missing # <<>>
              /\ probes' = Append(probes, Head(missing))
              /\ Len(puts) = Len(chunkLog) + 1
              /\ puts' = puts /\ tokenCalls' = tokenCalls
              /\ lastRes'.purpose = "GET"
              /\ lastRes'.state \in {"returned", "raised"}
         /\ tokenCalls' # tokenCalls => puts = <<>> /\ probes = <<>>
      ]_vars

\* the mutation request of chunk 2 has been issued after chunk 1 finished
\* with two probes
C15_Witness ==
    /\ op = "bulk_update" /\ Len(puts) = 2 /\ Len(chunkLog) >= 1
    /\ Len(ProbedIds(chunkLog[1].recs)) = 2
    /\ SubSeq(probes, 1, 2) = ProbedIds(chunkLog[1].recs)
    /\ lastRes.purpose = "PUT"

\* the probe records of chunk c follow the order in which their ids were sent
ProbedInSentOrder(c, recs) ==
    LET Probed(x) == WasProbed(x, recs)
    IN  ProbedIds(recs) = SelectSeq(SentAt(c), Probed)

\* the result so far is the records of the finished chunks, chunk by chunk in
\* chunk order, and within a chunk answered with a body no record of the
\* response comes after a probe record and the probe records follow the order
\* in which their ids were sent
OrderedResult ==
    op = "bulk_update" =>
       /\ out = LoggedRecs(Len(chunkLog))
       /\ \A k \in 2..Len(chunkLog) : chunkLog[k - 1].idx < chunkLog[k].idx
       /\ \A k \in 1..Len(chunkLog) :
             AnsweredWithBody(chunkLog[k]) =>
             LET recs == chunkLog[k].recs IN
             /\ recs = ResponsePart(recs)
                       \o SubSeq(recs, Len(ResponsePart(recs)) + 1, Len(recs))
             /\ ProbedInSentOrder(chunkLog[k].idx, recs)

\* the records of a chunk are built and handed over in order: the response
\* items as they came, then one probe record after the other at the end, and
\* the finished list is appended to the end of the result
OrderedSteps ==
    op = "bulk_update" =>
       /\ (pc = "loop" /\ pc' = "probe") =>
             items' \in Bodies /\ ResponsePart(items') = items'
       /\ (pc = "probe" /\ pc' = "probe") =>
             /\ Len(items') = Len(items) + 1
             /\ SubSeq(items', 1, Len(items)) = items
             /\ items'[Len(items')].src = "probe"
             /\ items'[Len(items')].id = Head(missing)
       /\ (pc = "probe" /\ pc' = "loop") =>
             /\ out' = out \o items \o <<out'[Len(out')]>>
             /\ out'[Len(out')].src = "probe"
             /\ out'[Len(out')].id = Head(missing)
       /\ IsPrefix(out, out')

\* C16: the list bulk_update builds and returns is the concatenation of the
\* per-chunk outcomes in chunk order; within a chunk the records taken from
\* the mutation response come first, in response order, followed by the
\* probe records in the order in which the missing ids were sent.
C16_OutcomeOrder == []OrderedResult /\ [][OrderedSteps]_vars

\* bulk_update returned after two chunks: the first gave a response record
\* followed by a probe record, the second gave records of its own
C16_Witness ==
    /\ Returned /\ Len(chunkLog) = 2
    /\ Len(chunkLog[1].recs) = 2
    /\ chunkLog[1].recs[1].src = "response" /\ chunkLog[1].recs[2].src = "probe"
    /\ chunkLog[2].recs # <<>>
    /\ out = chunkLog[1].recs \o chunkLog[2].recs

----------------------------------------------------------------------------
(* The access token of bulk_update *)

\* at most one token exchange; none before validation has passed; exactly
\* one, and a token in hand, once a mutation or a probe was issued or the
\* call returned, whatever the number of chunks; the latest request carried
\* the token of the call
OneTokenSoFar ==
    op = "bulk_update" =>
       /\ tokenCalls <= 1
       /\ pc = "validate" => tokenCalls = 0
       /\ (pc = "raised" /\ BadStatuses(rows) # {}) => tokenCalls = 0
       /\ (puts # <<>> \/ probes # <<>> \/ pc = "done")
             => tokenCalls = 1 /\ token # ""
       /\ lastRes.purpose \in {"PUT", "GET"} => lastRes.token = token

\* the exchange happens at the token step, after the gate and before any
\* mutation or probe, and the token is never replaced afterwards
TokenSteps ==
    op = "bulk_update" =>
       /\ tokenCalls' # tokenCalls =>
             /\ pc = "token" /\ BadStatuses(rows) = {}
             /\ puts = <<>> /\ probes = <<>>
             /\ tokenCalls' = tokenCalls + 1
       /\ token # "" => token' = token

\* C17: bulk_update performs exactly one token exchange per call, whatever
\* the number of chunks, after validation has passed and before the first
\* mutation request, and every mutation and probe request of the call
\* carries that one token.
C17_SingleToken == []OneTokenSoFar /\ [][TokenSteps]_vars

\* bulk_update returned after three mutation requests and at least one probe,
\* with one token exchange
C17_Witness ==
    /\ Returned /\ Len(puts) = 3 /\ probes # <<>>
    /\ tokenCalls = 1 /\ lastRes.token = "tok"

\* the exceptions get_access_token raises after its POST: a non-success
\* status, a transport failure, a success response without access_token
ExchangeErrors == {"HTTPError", "ConnectionError", "RuntimeError"}

\* C18: when the token exchange fails, bulk_update ends by raising: with
\* credentials missing no exchange request was made at all, otherwise exactly
\* one was made (no retry); no mutation and no probe request was issued, no
\* token is held and the result list is empty.
C18_AuthFailureIsCallScoped ==
    (op = "bulk_update" /\ raised # "none" /\ BadStatuses(rows) = {})
    => /\ pc = "raised"
       /\ raised \in ExchangeErrors \cup {"ValueError"}
       /\ raised = "ValueError" => tokenCalls = 0
       /\ raised \in ExchangeErrors => tokenCalls = 1
       /\ puts = <<>> /\ probes = <<>> /\ lastRes = NoCall
       /\ token = "" /\ out = <<>> /\ chunkLog = <<>> /\ hookCalls = <<>>

\* bulk_update raised for three well-formed rows because the exchange was
\* answered without an access_token
C18_Witness ==
    /\ op = "bulk_update" /\ pc = "raised" /\ raised = "RuntimeError"
    /\ Len(rows) = 3 /\ AllWellFormed
    /\ tokenCalls = 1

----------------------------------------------------------------------------
(* Properties of fetch_records: paging and id chunks *)

ByCvid == op = "fetch_records" /\ cvid # "" /\ ids = <<>>

\* the requests made so far are those of pages 1, 2, 3, ... and every one
\* but the one under way has its answer
ConsecutivePages ==
    /\ \A k \in 1..Len(fetchLog) :
          fetchLog[k].kind = "page" /\ fetchLog[k].page = k
    /\ Len(answers) = Len(fetchLog)

\* a page that came back full: records, and exactly PER_PAGE of them
FullPage(a) == a.kind = "data" /\ a.n = PerPage

\* a page after which the code goes on: it has records, and the server
\* reported more_records, or sent no info object and the page is full
GoesOn(a) ==
    /\ a.kind = "data" /\ a.n >= 1
    /\ \/ a.info = "more"
       \/ a.info = "absent" /\ a.n = PerPage

\* C19 as stated: the pages requested are 1, 2, 3, ... and a further page
\* was requested only after a full page and only with fetch_all.
C19_StopOnShortPage ==
    ByCvid =>
       /\ ConsecutivePages
       /\ \A k \in 1..(Len(fetchLog) - 1) : fetchAll /\ FullPage(answers[k])

\* C19 amended: the pages requested are 1, 2, 3, ... ; a further page was
\* requested only with fetch_all and only after a page that had records and
\* for which the server reported more_records, or, without an info object,
\* that was full; and once fetch_records has returned, the last page was not
\* such a page or fetch_all was not asked for.
C19_PagingStopRule ==
    ByCvid =>
       /\ ConsecutivePages
       /\ \A k \in 1..(Len(fetchLog) - 1) : fetchAll /\ GoesOn(answers[k])
       /\ pc = "done" => ~(fetchAll /\ GoesOn(answers[Len(answers)]))
       /\ pc = "page" => page = Len(fetchLog) + 1

\* with fetch_all, page 2 was requested after a short page 1 for which the
\* server reported more_records, and the call returned after page 2
C19_Witness ==
    /\ ByCvid /\ fetchAll /\ pc = "done"
    /\ Len(fetchLog) = 2
    /\ answers[1] = Answer("data", 1, "more")
    /\ answers[2].kind = "data" /\ answers[2].info = "nomore"

ByIds == op = "fetch_records" /\ cvid = "" /\ ids # <<>>

\* ids[(k-1)*IDS_PER_REQUEST + 1 .. k*IDS_PER_REQUEST], cut at the end of ids
IdsOfRequest(k) ==
    [j \in 1..(IF k * IdsPerRequest <= Len(ids) THEN IdsPerRequest
               ELSE Len(ids) - (k - 1) * IdsPerRequest)
       |-> ids[(k - 1) * IdsPerRequest + j]]

\* the records the k-th answer contributed
RecordsOfAnswer(k) ==
    IF answers[k].kind = "data"
    THEN [j \in 1..answers[k].n |-> [from |-> k, k |-> j]]
    ELSE <<>>

\* an answer of 204, or a body whose data is empty
NoData(a) == a.kind = "204" \/ (a.kind = "data" /\ a.n = 0)

\* C20: fetch_records with N ids requests the chunks of IDS_PER_REQUEST ids
\* one after the other in order; a chunk answered 204 or with empty data
\* adds no record and is followed by the next chunk; the call returns after
\* exactly ceil(N / IDS_PER_REQUEST) requests, and the records collected are
\* those of the answers, concatenated in request order.
C20_IdListFetch ==
    ByIds =>
       /\ Len(fetchLog) <= CeilDiv(Len(ids), IdsPerRequest)
       /\ Len(answers) = Len(fetchLog)
       /\ \A k \in 1..Len(fetchLog) :
             /\ fetchLog[k].kind = "ids"
             /\ fetchLog[k].ids = IdsOfRequest(k)
       /\ (answers # <<>> /\ NoData(answers[Len(answers)]))
             => /\ pc # "raised"
                /\ Len(answers) < CeilDiv(Len(ids), IdsPerRequest) => pc = "ids"
       /\ pc = "ids" => page = Len(fetchLog) + 1
       /\ pc = "done" => Len(fetchLog) = CeilDiv(Len(ids), IdsPerRequest)
       /\ allRecords = Flatten([k \in 1..Len(answers) |-> RecordsOfAnswer(k)])

\* fetch_records returned for three ids after two requests: the first chunk
\* was answered 204, the second with one record
C20_Witness ==
    /\ ByIds /\ pc = "done" /\ Len(ids) = 3
    /\ Len(fetchLog) = 2
    /\ answers[1].kind = "204"
    /\ answers[2] = Answer("data", 1, "absent")
    /\ allRecords = <<[from |-> 2, k |-> 1]>>

----------------------------------------------------------------------------
(* Payloads, probe and chunk-failure codes, empty chunks *)

\* a row that may be sent: a digits-only id and a status of VALID_STATUSES
Sendable(r) == r.id \in {"1", "2"} /\ r.status \in VALID_STATUSES

\* the items bulk_update is to send for chunk c
SendableItems(c) ==
    LET good == SelectSeq(ChunkAt(rows, chunkSize, c), Sendable)
    IN  [i \in 1..Len(good) |-> [id |-> good[i].id, Lead_Status |-> good[i].status]]

\* the chunks the loop has reached, in progress or behind it
ReachedChunks ==
    {c \in 1..NumChunks(rows, chunkSize) : c < idx \/ (c = idx /\ pc = "probe")}

SentChunks == {c \in ReachedChunks : SendableItems(c) # <<>>}

\* the k-th smallest element of a set of numbers
Nth(S, k) == CHOOSE c \in S : Cardinality({d \in S : d < c}) = k - 1

\* C25: every item of every payload sent has a digits-only id and a status of
\* VALID_STATUSES; the k-th payload sent is made of exactly the well-formed
\* rows of the k-th chunk that has any, in one request, the other rows of the
\* chunk being left out
C25_PayloadSafety ==
    op = "bulk_update" =>
        /\ \A k \in 1..Len(puts) : \A i \in 1..Len(puts[k]) :
              /\ puts[k][i].id \in {"1", "2"}
              /\ puts[k][i].Lead_Status \in VALID_STATUSES
        /\ Len(puts) = Cardinality(SentChunks)
        /\ \A k \in 1..Len(puts) : puts[k] = SendableItems(Nth(SentChunks, k))

\* a chunk of a row with a non-numeric id and a well-formed row: one request
\* with the well-formed row alone
C25_Witness ==
    /\ Returned /\ chunkSize = 2 /\ Len(rows) = 2
    /\ rows[1].id = "abc" /\ Sendable(rows[2])
    /\ puts = << <<[id |-> rows[2].id, Lead_Status |-> rows[2].status]>> >>

\* C26 as stated: the record of a probe has code NOT_FOUND_ON_CHECK when the
\* read returned 204 and when the read failed with HTTP 404
C26_NotFoundProbe ==
    (op = "bulk_update" /\ lastRes.purpose = "GET")
    => /\ (lastRes.state = "returned" /\ lastRes.status = 204)
            => LastProbeRecord.code = "NOT_FOUND_ON_CHECK"
       /\ (lastRes.state = "raised" /\ lastRes.exc = "HTTPError"
           /\ lastRes.excResp = 404)
            => LastProbeRecord.code = "NOT_FOUND_ON_CHECK"

\* the chunk whose mutation request ended last has failed
LastChunkFailed ==
    /\ op = "bulk_update" /\ lastRes.purpose = "PUT" /\ pc # "probe"
    /\ chunkLog # <<>> /\ chunkLog[Len(chunkLog)].kind = "failed"

LastChunkCodes ==
    LET recs == chunkLog[Len(chunkLog)].recs
    IN  {recs[j].code : j \in 1..Len(recs)}

\* C27 as stated: a chunk whose mutation request failed with an HTTP error
\* response of status S has code CHUNK_FAILED_HTTP_S on every record;
\* CHUNK_FAILED_HTTP_NETWORK_ERROR is used only for an error that carries no
\* response, CHUNK_FAILED_UNKNOWN only for errors that are no HTTP errors
C27_ChunkFailureCode ==
    LastChunkFailed =>
        /\ (lastRes.state = "raised" /\ lastRes.exc = "HTTPError"
            /\ lastRes.excResp \in ServerStatuses)
             => LastChunkCodes = {"CHUNK_FAILED_HTTP_" \o StatusStr(lastRes.excResp)}
        /\ "CHUNK_FAILED_HTTP_NETWORK_ERROR" \in LastChunkCodes
             => (lastRes.state = "raised" /\ lastRes.excResp = NoResponse)
        /\ "CHUNK_FAILED_UNKNOWN" \in LastChunkCodes
             => (lastRes.state = "raised" /\ lastRes.exc # "HTTPError")

\* nothing stands for a chunk without payload, and what stands for the k-th
\* chunk that was submitted carries that chunk's index in the input
EmptyChunksLeaveNoTrace ==
    op = "bulk_update" =>
        /\ \A c \in 1..NumChunks(rows, chunkSize) :
              ~HasPayload(c) =>
                 /\ \A k \in 1..Len(chunkLog) : chunkLog[k].idx # c
                 /\ \A k \in 1..Len(hookCalls) : hookCalls[k] # c
        /\ \A k \in 1..Len(chunkLog) :
              /\ hookCalls[k] = chunkLog[k].idx
              /\ puts[k] = PayloadOf(ChunkAt(rows, chunkSize, chunkLog[k].idx))
              /\ chunkLog[k].idx =
                    Nth({c \in 1..NumChunks(rows, chunkSize) : HasPayload(c)}, k)
        /\ \A k \in 1..Len(puts) : puts[k] # <<>>
        /\ \A k \in 1..Len(probes) :
              \E j \in 1..Len(puts) : probes[k] \in SeqToSet(IdsSent(puts[j]))
        /\ out = LoggedRecs(Len(chunkLog))

\* the loop passing over a chunk without payload changes nothing but the index
SkipSteps ==
    (op = "bulk_update" /\ pc = "loop" /\ idx <= NumChunks(rows, chunkSize)
     /\ ~HasPayload(idx))
    => /\ idx' = idx + 1
       /\ UNCHANGED <<puts, probes, out, hookCalls, chunkLog, tokenCalls>>

\* C28: a chunk whose payload is empty after filtering causes no mutation
\* request, no probe, no record and no progress-callback call, and the chunks
\* after it are submitted and reported under their 1-based indices in the input
C28_EmptyChunkSkipped == []EmptyChunksLeaveNoTrace /\ [][SkipSteps]_vars

\* chunk 1 of 2 had nothing to send: the only request, record and callback are
\* those of chunk 2
C28_Witness ==
    /\ Returned /\ chunkSize = 1 /\ Len(rows) = 2
    /\ ~HasPayload(1) /\ HasPayload(2)
    /\ Len(puts) = 1 /\ hookCalls = <<2>>
    /\ Len(chunkLog) = 1 /\ chunkLog[1].idx = 2 /\ out # <<>>

\* the NO_CONTENT records for the ids sent: one per id, in the order sent
NoContentFor(sent, recs) ==
    /\ Len(recs) = Len(sent)
    /\ \A j \in 1..Len(recs) :
          /\ recs[j].id = sent[j]
          /\ recs[j].status = "error"
          /\ recs[j].code = "NO_CONTENT"

PutAnswered204(res) ==
    res.purpose = "PUT" /\ res.state = "returned" /\ res.status = 204

\* right after a PUT answered 204 no probe is pending and the chunk is logged
\* with its NO_CONTENT records; a chunk logged with a NO_CONTENT record has
\* nothing but the NO_CONTENT records of the ids sent
NoContentLogged ==
    op = "bulk_update" =>
        /\ PutAnswered204(lastRes) =>
              /\ pc # "probe" /\ missing = <<>>
              /\ chunkLog # <<>>
              /\ NoContentFor(IdsSent(puts[Len(puts)]),
                              chunkLog[Len(chunkLog)].recs)
        /\ \A k \in 1..Len(chunkLog) :
              (\E j \in 1..Len(chunkLog[k].recs) :
                    chunkLog[k].recs[j].code = "NO_CONTENT")
              => /\ NoContentFor(SentAt(chunkLog[k].idx), chunkLog[k].recs)
                 /\ ProbedIds(chunkLog[k].recs) = <<>>

\* the step in which a PUT is answered 204 issues no probe and appends the
\* NO_CONTENT records of the ids sent to the result
NoContentSteps ==
    (op = "bulk_update" /\ Len(puts') = Len(puts) + 1 /\ PutAnswered204(lastRes'))
    => /\ probes' = probes
       /\ pc' = "loop"
       /\ Len(out') = Len(out) + Len(SentAt(idx))
       /\ NoContentFor(SentAt(idx), SubSeq(out', Len(out) + 1, Len(out')))
       /\ idx' = idx + 1

FailurePart(e) == {j \in 1..Len(e.recs) : e.recs[j].src = "chunk_failed"}

\* C30 as stated: for every chunk the output holds either the chunk's
\* reconciled results or its chunk-failure records, never both, and the
\* progress callback is called at most once for the chunk, also when the
\* callback raises
C30_ResultsOrFailureRecords ==
    op = "bulk_update" =>
        /\ out = LoggedRecs(Len(chunkLog))
        /\ \A k \in 1..Len(chunkLog) :
              \/ FailurePart(chunkLog[k]) = {}
              \/ FailurePart(chunkLog[k]) = 1..Len(chunkLog[k].recs)
        /\ \A c \in 1..NumChunks(rows, chunkSize) :
              Cardinality({k \in 1..Len(hookCalls) : hookCalls[k] = c}) <= 1

----------------------------------------------------------------------------
(* The confirmation flow of the UI *)

InvokeAt(k) == k \in 1..Len(uiEvents) /\ uiEvents[k] = "invoke"

\* an invocation directly follows a Confirm click, which follows an Update
\* click with no Cancel or other Confirm between them
InvokedAfterConfirm ==
    \A k \in 1..Len(uiEvents) :
        InvokeAt(k) =>
            /\ k > 2 /\ uiEvents[k - 1] = "confirm"
            /\ \E j \in 1..(k - 2) :
                /\ uiEvents[j] = "update"
                /\ \A i \in (j + 1)..(k - 2) :
                        uiEvents[i] \notin {"cancel", "confirm", "invoke"}

\* after a Cancel click nothing is invoked before the next Update click
NoInvokeAfterCancel ==
    \A k \in 1..Len(uiEvents) : \A m \in (k + 1)..Len(uiEvents) :
        uiEvents[k] = "cancel" /\ InvokeAt(m) =>
            \E j \in (k + 1)..(m - 1) : uiEvents[j] = "update"

\* the calls made are the invocations logged
CallsCounted ==
    Len(uiCalls) = Cardinality({k \in 1..Len(uiEvents) : InvokeAt(k)})

\* C21 as stated: bulk_update is invoked only after Update and then Confirm,
\* exactly once per confirmation, and not after a Cancel
C21_ExactlyOncePerConfirmation ==
    /\ InvokedAfterConfirm
    /\ NoInvokeAfterCancel
    /\ CallsCounted
    /\ \A k \in 1..Len(uiEvents) :
        uiEvents[k] = "confirm" /\ pc = "idle" =>
            k < Len(uiEvents) /\ uiEvents[k + 1] = "invoke"

\* C21: bulk_update is invoked only directly after a Confirm click that
\* followed an Update click, never after a Cancel, and at most once per
\* confirmation: the run after a Confirm click either invokes it once or, with
\* missing credentials, stops without invoking it, and no later run invokes it
C21_ConfirmationPrecedesMutation ==
    /\ InvokedAfterConfirm
    /\ NoInvokeAfterCancel
    /\ CallsCounted
    /\ \A k \in 1..Len(uiEvents) :
        uiEvents[k] = "confirm" /\ pc = "idle" =>
            k < Len(uiEvents) /\ uiEvents[k + 1] \in {"invoke", "creds_missing"}
    /\ pc = "idle" => ~executeUpdate

\* one invocation after Update and Confirm, and a later run that invokes nothing
C21_Witness ==
    /\ uiEvents = <<"edit", "update", "confirm", "invoke", "edit">>
    /\ Len(uiCalls) = 1 /\ uiCalls[1] # <<>>
    /\ pc = "idle"

----------------------------------------------------------------------------
(* parse_ids *)

Parsed == op = "parse_ids" /\ pc = "done"

\* a Record Identifier: a non-empty string of decimal digits
OnlyDigits(s) == s # <<>> /\ \A k \in 1..Len(s) : s[k] \in {"1", "9"}

\* the trimmed lines of the input that are Record Identifiers, in input order
NumericLines(text) ==
    LET ls == SplitLines(text)
        Keep(k) == OnlyDigits(Strip(ls[k]))
        F[k \in 0..Len(ls)] ==
            IF k = 0 THEN <<>>
            ELSE IF Keep(k) THEN Append(F[k - 1], Strip(ls[k])) ELSE F[k - 1]
    IN  F[Len(ls)]

\* the trimmed lines of the input that are neither blank nor Record Identifiers
OtherLines(text) ==
    LET ls == SplitLines(text)
        Keep(k) == Strip(ls[k]) # <<>> /\ ~OnlyDigits(Strip(ls[k]))
        F[k \in 0..Len(ls)] ==
            IF k = 0 THEN <<>>
            ELSE IF Keep(k) THEN Append(F[k - 1], Strip(ls[k])) ELSE F[k - 1]
    IN  F[Len(ls)]

\* C22: for every input text, parse_ids returns only digits-only strings, none
\* of them twice, every digits-only trimmed line of the input among them, and
\* parsing the returned ids joined by newlines returns the same list
C22_ParseIdsShape ==
    Parsed =>
        /\ \A k \in 1..Len(parseOut.ids) : OnlyDigits(parseOut.ids[k])
        /\ NoDuplicates(parseOut.ids)
        /\ SeqToSet(NumericLines(uiText)) \subseteq SeqToSet(parseOut.ids)
        /\ ParseIds(JoinLines(parseOut.ids)).ids = parseOut.ids

\* a text with a padded id, a repeated id and a line that is no id
C22_Witness ==
    /\ Parsed
    /\ uiText = <<" ", "9", "\n", "a", "\n">> \/ uiText = <<"9", "\n", "1", "\n", "9">>
    /\ Len(parseOut.ids) \in {1, 2}

DigitVal(c) == IF c = "1" THEN 1 ELSE 9

\* the number a string of digits denotes
RECURSIVE NumVal(_)
NumVal(s) ==
    IF s = <<>> THEN 0 ELSE 10 * NumVal(SubSeq(s, 1, Len(s) - 1)) + DigitVal(s[Len(s)])

\* a comes before b as a string: at the first position where they differ a has
\* the smaller digit, or a ends there
ComesBefore(a, b) ==
    \E i \in 1..Len(b) :
        /\ \A j \in 1..(i - 1) : j <= Len(a) /\ a[j] = b[j]
        /\ \/ i = Len(a) + 1
           \/ i <= Len(a) /\ DigitVal(a[i]) < DigitVal(b[i])

\* C23 as stated: the returned ids are in ascending order as decimal integers,
\* whatever their numbers of digits
C23_NumericAscending ==
    Parsed =>
        \A k \in 1..(Len(parseOut.ids) - 1) :
            NumVal(parseOut.ids[k]) < NumVal(parseOut.ids[k + 1])

\* C23: the returned ids are in ascending order as strings, compared digit by
\* digit from the left, which is the order of their values when two ids have
\* the same number of digits
C23_StringAscending ==
    Parsed =>
        \A k \in 1..(Len(parseOut.ids) - 1) :
            LET a == parseOut.ids[k]
                b == parseOut.ids[k + 1]
            IN  /\ ComesBefore(a, b)
                /\ Len(a) = Len(b) => NumVal(a) < NumVal(b)

\* 19 is returned before 9
C23_Witness ==
    /\ Parsed
    /\ parseOut.ids = << <<"1", "9">>, <<"9">> >>

\* C24 as stated: parse_ids reports the number of repeated occurrences of
\* numeric ids as duplicates removed, and the number of non-numeric lines
\* discarded
C24_DuplicatesAndIgnoredReported ==
    Parsed =>
        /\ parseOut.duplicates =
              Len(NumericLines(uiText)) - Cardinality(SeqToSet(NumericLines(uiText)))
        /\ parseOut.ignored = Len(OtherLines(uiText))

----------------------------------------------------------------------------
(* The id list of the UI *)

\* C29 as stated: in every state of the UI loaded_lead_ids is parse_ids of the
\* text area content
C29_LoadedIdsMatchText ==
    op = "ui" => loadedIds = ParseIds(uiText).ids

----------------------------------------------------------------------------
(* The sleeps of _request *)

\* C32 as stated: _request sleeps only before a further attempt: it has slept
\* at most once per attempt made so far, and once it has raised it has slept
\* less often than it has made attempts
C32_SleepOnlyBetweenAttempts ==
    DirectCall =>
        /\ Len(req.sleeps) <= req.nreq
        /\ req.state = "raised" => Len(req.sleeps) <= req.nreq - 1

====
